---- MODULE Spec2Model ----
(***************************************************************************)
(* Model of LocalStorageService                                            *)
(* (src/backend/base/langflow/services/storage/local.py): a local-disk     *)
(* store mapping (flow_id, file_name) to data_dir / flow_id / file_name.   *)
(*                                                                         *)
(* The directory tree on disk is the state.  Every coroutine is cut at its *)
(* await points and at the system calls of the worker thread it hands work *)
(* to: the part of a coroutine that runs on the event loop up to its first *)
(* await is one action, and each system call of write_bytes / read_bytes   *)
(* (open, then write or read) is one action of its own.                    *)
(***************************************************************************)
EXTENDS Integers, Sequences, FiniteSets, TLC

VARIABLES
    fs,         \* the directory tree: path -> node
    task,       \* the calling tasks: task id -> the call it is running
    lastSaved   \* history, per path: the payload of the last successful save
                \* on that key; Deleted once a delete removed the file; NoData
                \* at the start, after a delete that removed nothing, and from
                \* the moment a later save on that key is called

VARIABLE
    fib         \* fib.py: the call of fibonacci(n) in progress

vars == <<fs, task, lastSaved, fib>>

----------------------------------------------------------------------------
(* Bounds and input sets *)

MaxLen == 2                     \* longest payload, in bytes
MaxFibN == 12                   \* largest |n| given to fibonacci
Bytes == {1, 2}                 \* byte values payloads are made of
Tasks == {1, 2}                 \* callers of the one adapter instance

\* A path is the sequence of its components below data_dir; Root is data_dir.
Root == <<>>
\* flow_id is an opaque string: "f" and the nested "f/a" both reach
\* data_dir / flow_id, the second one making "a" a directory inside flow "f".
FlowIds == {<<"f">>, <<"f", "a">>}
FileNames == {"a", "b"}

Payloads == UNION {[1..n -> Bytes] : n \in 0..MaxLen}

Prefixes(p) == {SubSeq(p, 1, k) : k \in 0..Len(p)}
Paths == UNION {Prefixes(fl \o <<n>>) : fl \in FlowIds, n \in FileNames}

NoData == <<0>>                 \* "no payload": 0 is not a byte of Bytes
Deleted == <<0, 0>>             \* "removed by delete_file"

----------------------------------------------------------------------------
(* The filesystem *)

Absent == [kind |-> "none", data |-> <<>>]
Dir == [kind |-> "dir", data |-> <<>>]
File(d) == [kind |-> "file", data |-> d]

Parent(p) == SubSeq(p, 1, Len(p) - 1)

\* A check that looks at the folder instead of the entry itself.
existsFolder(s, p) == p = Root \/ s[Parent(p)].kind = "dir"

\* Path.exists(): true for a file or a directory; false when the entry or one
\* of its ancestors is missing or an ancestor is not a directory.
RECURSIVE exists(_, _)
exists(s, p) ==
    /\ s[p].kind # "none"
    /\ p = Root \/ (s[Parent(p)].kind = "dir" /\ exists(s, Parent(p)))

\* A directory test that accepts any existing entry.
is_dirLoose(s, p) == s[p].kind # "none"

is_dir(s, p) == exists(s, p) /\ s[p].kind = "dir"
is_file(s, p) == exists(s, p) /\ s[p].kind = "file"

\* mkdir without parents=True: a missing parent is an error.
mkdirNoParents(s, p) ==
    IF s[p].kind = "dir" THEN [fs |-> s, err |-> "ok"]
    ELSE IF s[p].kind = "file" THEN [fs |-> s, err |-> "FileExistsError"]
    ELSE IF p # Root /\ s[Parent(p)].kind # "dir"
         THEN [fs |-> s, err |-> "FileNotFoundError"]
    ELSE [fs |-> [s EXCEPT ![p] = Dir], err |-> "ok"]

RECURSIVE mkdirParents(_, _)
mkdirParents(s, p) ==
    IF s[p].kind = "dir" THEN [fs |-> s, err |-> "ok"]
    ELSE IF s[p].kind = "file" THEN [fs |-> s, err |-> "FileExistsError"]
    ELSE IF p = Root THEN [fs |-> [s EXCEPT ![p] = Dir], err |-> "ok"]
    ELSE LET r == mkdirParents(s, Parent(p))
         IN  IF r.err # "ok" THEN r
             ELSE [fs |-> [r.fs EXCEPT ![p] = Dir], err |-> "ok"]

\* mkdir without exist_ok=True: a directory that is already there is an
\* error.
mkdirNoExistOk(s, p) ==
    IF s[p].kind # "none" THEN [fs |-> s, err |-> "FileExistsError"]
    ELSE mkdirParents(s, p)

\* Path.mkdir(parents=True, exist_ok=True): an existing directory is kept, a
\* missing one is created together with every missing ancestor (data_dir
\* included), a regular file at the path or above it makes the call fail.
RECURSIVE mkdir(_, _)
mkdir(s, p) ==
    IF s[p].kind = "dir" THEN [fs |-> s, err |-> "ok"]
    ELSE IF s[p].kind = "file" THEN [fs |-> s, err |-> "FileExistsError"]
    ELSE IF p = Root THEN [fs |-> [s EXCEPT ![p] = Dir], err |-> "ok"]
    ELSE IF s[Parent(p)].kind = "file"
         THEN [fs |-> s, err |-> "NotADirectoryError"]
    ELSE LET r == mkdir(s, Parent(p))
         IN  IF r.err # "ok" THEN r
             ELSE [fs |-> [r.fs EXCEPT ![p] = Dir], err |-> "ok"]

\* A path that depends on what is on disk: the file name is dropped while
\* the flow directory does not exist.
build_full_pathOnDisk(fl, n) == IF fs[fl].kind = "dir" THEN fl \o <<n>> ELSE fl

\* build_full_path: data_dir / flow_id / file_name.
build_full_path(fl, n) == fl \o <<n>>

\* An open that puts a fresh file in the place of a directory.
OpenWriteReplace(s, p) ==
    IF s[Parent(p)].kind # "dir" THEN [fs |-> s, err |-> "FileNotFoundError"]
    ELSE [fs |-> [s EXCEPT ![p] = File(<<>>)], err |-> "ok"]

\* open without O_TRUNC: an existing file keeps its content.
OpenWriteNoTrunc(s, p) ==
    IF s[p].kind = "dir" THEN [fs |-> s, err |-> "IsADirectoryError"]
    ELSE IF s[Parent(p)].kind # "dir" THEN [fs |-> s, err |-> "FileNotFoundError"]
    ELSE IF s[p].kind = "file" THEN [fs |-> s, err |-> "ok"]
    ELSE [fs |-> [s EXCEPT ![p] = File(<<>>)], err |-> "ok"]

\* open(path, "wb"): O_WRONLY | O_CREAT | O_TRUNC.
OpenWrite(s, p) ==
    IF s[p].kind = "dir" THEN [fs |-> s, err |-> "IsADirectoryError"]
    ELSE IF ~is_dir(s, Parent(p))
         THEN [fs |-> s,
               err |-> IF s[Parent(p)].kind = "file"
                       THEN "NotADirectoryError" ELSE "FileNotFoundError"]
    ELSE [fs |-> [s EXCEPT ![p] = File(<<>>)], err |-> "ok"]

\* A write in append mode: the bytes go after what the file holds.
WriteAppend(old, d) == old \o d

WriteShortTail(old, d) ==
    IF Len(d) >= Len(old) THEN d ELSE d \o SubSeq(old, Len(d) + 1, Len(old))

\* A short write: only the first byte of the payload reaches the file.
WriteShort(old, d) ==
    IF Len(d) > 1 THEN WriteShortTail(old, SubSeq(d, 1, 1)) ELSE WriteShortTail(old, d)

\* write(fd, data) on a descriptor at offset 0: the bytes replace the first
\* Len(data) bytes of what the file holds, the rest is kept.
WriteAt0(old, d) ==
    IF Len(d) >= Len(old) THEN d ELSE d \o SubSeq(old, Len(d) + 1, Len(old))

\* open(path, "rb").
OpenRead(s, p) ==
    IF ~exists(s, p) THEN "FileNotFoundError"
    ELSE IF s[p].kind = "dir" THEN "IsADirectoryError"
    ELSE "ok"

\* Path.unlink() on an entry that exists: a directory is refused (EISDIR on
\* Linux, EPERM elsewhere), a regular file is removed.
UnlinkErrors(s, p) ==
    IF s[p].kind = "dir" THEN {"IsADirectoryError", "PermissionError"}
    ELSE {"ok"}

\* A removal that takes the other entries of the folder with it.
unlinkFolder(s, p) ==
    [q \in DOMAIN s |->
        IF Len(q) = Len(p) /\ Parent(q) = Parent(p) /\ s[q].kind = "file"
        THEN Absent ELSE s[q]]

\* A removal that also removes the folder once nothing is left in it.
unlinkPrune(s, p) ==
    [q \in DOMAIN s |->
        IF q = p THEN Absent
        ELSE IF q = Parent(p) /\ q # Root
                /\ \A e \in DOMAIN s : (Parent(e) = q /\ Len(e) = Len(p) /\ e # p)
                                            => s[e].kind = "none"
        THEN Absent ELSE s[q]]

unlink(s, p) == [s EXCEPT ![p] = Absent]

\* A listing without the is_file filter.
ListedNamesAll(s, fl) == {n \in FileNames : s[fl \o <<n>>].kind # "none"}

\* [file.name for file in folder_path.iterdir() if file.is_file()], as a set.
ListedNames(s, fl) == {n \in FileNames : is_file(s, fl \o <<n>>)}

\* iterdir yields the entries in an order of the filesystem's choosing.
Orderings(S) ==
    {q \in [1..Cardinality(S) -> S] : \A i, j \in DOMAIN q : q[i] = q[j] => i = j}

----------------------------------------------------------------------------
(* Tasks *)

LogEvent(level, fl, n) == [level |-> level, flow |-> fl, file |-> n]

Idle ==
    [pc |-> "idle", op |-> "none", flow |-> <<>>, name |-> "", data |-> <<>>,
     outcome |-> "none", result |-> <<>>, log |-> <<>>, fd |-> "closed",
     buf |-> <<>>, prev |-> NoData, attempts |-> 0, newroot |-> FALSE,
     loopfs |-> {}, workerfs |-> {}, awaits |-> 0]

\* The coroutine reaches "await asyncio.to_thread(...)": the caller is
\* suspended and the rest of the filesystem work is the worker thread's.
Suspend(c) == [c EXCEPT !.pc = "open", !.awaits = c.awaits + 1]

\* A filesystem call made by the worker thread.
InWorker(c, call) == [c EXCEPT !.workerfs = c.workerfs \cup {call}]

PathOf(c) == build_full_path(c.flow, c.name)

\* A call that has returned or raised: its outcome, its result and what it
\* logged, kept until the caller takes them.
Finish(c, outcome, result, log) ==
    [c EXCEPT !.pc = "done", !.outcome = outcome, !.result = result,
              !.log = c.log \o log, !.fd = "closed", !.buf = <<>>]

\* An unlink that destroys the content under the descriptors still open.
OrphanedEmpty(tk, p, content) ==
    [u \in Tasks |->
        IF tk[u].fd = "path" /\ PathOf(tk[u]) = p
        THEN [tk[u] EXCEPT !.fd = "orphan", !.buf = <<>>]
        ELSE tk[u]]

\* Tasks holding an open descriptor on p keep the inode when p is unlinked.
Orphaned(tk, p, content) ==
    [u \in Tasks |->
        IF tk[u].fd = "path" /\ PathOf(tk[u]) = p
        THEN [tk[u] EXCEPT !.fd = "orphan", !.buf = content]
        ELSE tk[u]]

\* fib.py is a script of its own: no call of fibonacci is in progress while
\* the storage service runs.
FibCall(n) == [pc |-> "start", n |-> n, result |-> <<>>, a |-> 0, b |-> 0, k |-> 0]
FibIdle == [FibCall(0) EXCEPT !.pc = "idle"]

Init ==
    /\ fs \in {[p \in Paths |-> Absent],
               [p \in Paths |-> IF p = Root THEN Dir ELSE Absent]}
    /\ task = [t \in Tasks |-> Idle]
    /\ lastSaved = [p \in Paths |-> NoData]
    /\ fib = FibIdle

----------------------------------------------------------------------------
(* save_file *)

\* Lines 32-34 run on the event loop: mkdir, outside the try block.
CallSave(t, fl, n, d) ==
    /\ task[t].pc = "idle"
    /\ LET c == [Idle EXCEPT !.op = "save", !.flow = fl, !.name = n,
                             !.data = d, !.loopfs = {"mkdir"},
                             !.prev = lastSaved[build_full_path(fl, n)]]
           r == mkdir(fs, fl)
           c1 == [c EXCEPT !.newroot = ~exists(fs, Root) /\ exists(r.fs, Root)]
       IN  /\ fs' = r.fs
           /\ lastSaved' = [lastSaved EXCEPT ![PathOf(c)] = NoData]
           /\ IF r.err = "ok"
              THEN task' = [task EXCEPT ![t] = Suspend(c1)]
              ELSE task' = [task EXCEPT ![t] = Finish(c1, r.err, <<>>, <<>>)]
    /\ UNCHANGED fib

\* write_bytes, first system call, in the worker thread.  A failure reaches
\* the except clause: logger.exception, then raise.
SaveOpen(t) ==
    /\ task[t].pc = "open" /\ task[t].op = "save"
    /\ LET c == InWorker(task[t], "open")
           r == OpenWrite(fs, PathOf(c))
       IN  /\ fs' = r.fs
           /\ IF r.err = "ok"
              THEN task' = [task EXCEPT ![t] =
                               [c EXCEPT !.pc = "write", !.fd = "path",
                                         !.attempts = c.attempts + 1]]
              ELSE task' = [task EXCEPT ![t] =
                               Finish([c EXCEPT !.attempts = c.attempts + 1],
                                      r.err, <<>>,
                                      <<LogEvent("error", c.flow, c.name)>>)]
           /\ UNCHANGED lastSaved
    /\ UNCHANGED fib

\* write_bytes, second system call, then close; back on the event loop the
\* success is logged at info level.
SaveWrite(t) ==
    /\ task[t].pc = "write" /\ task[t].op = "save"
    /\ LET c == InWorker(task[t], "write")
           p == PathOf(c)
           done == Finish(c, "ok", <<>>, <<LogEvent("info", c.flow, c.name)>>)
       IN  /\ IF c.fd = "path"
              THEN fs' = [fs EXCEPT ![p] = File(WriteAt0(fs[p].data, c.data))]
              ELSE fs' = fs
           /\ task' = [task EXCEPT ![t] = done]
           /\ lastSaved' = [lastSaved EXCEPT ![p] = c.data]
    /\ UNCHANGED fib

----------------------------------------------------------------------------
(* get_file *)

\* Lines 54-58 run on the event loop: the existence check.
CallGet(t, fl, n) ==
    /\ task[t].pc = "idle"
    /\ LET c == [Idle EXCEPT !.op = "get", !.flow = fl, !.name = n,
                             !.loopfs = {"exists"}]
       IN  IF exists(fs, PathOf(c))
           THEN task' = [task EXCEPT ![t] = Suspend(c)]
           ELSE task' = [task EXCEPT ![t] =
                            Finish(c, "FileNotFoundError", <<>>,
                                   <<LogEvent("warning", fl, n)>>)]
    /\ UNCHANGED <<fs, lastSaved>>
    /\ UNCHANGED fib

\* read_bytes, first system call, in the worker thread; nothing catches its
\* failure.
GetOpen(t) ==
    /\ task[t].pc = "open" /\ task[t].op = "get"
    /\ LET c == InWorker(task[t], "open")
           e == OpenRead(fs, PathOf(c))
       IN  IF e = "ok"
           THEN task' = [task EXCEPT ![t] =
                            [c EXCEPT !.pc = "read", !.fd = "path"]]
           ELSE task' = [task EXCEPT ![t] = Finish(c, e, <<>>, <<>>)]
    /\ UNCHANGED <<fs, lastSaved>>
    /\ UNCHANGED fib

\* read_bytes, second system call: the whole content of the inode.
GetRead(t) ==
    /\ task[t].pc = "read" /\ task[t].op = "get"
    /\ LET c == InWorker(task[t], "read")
           content == IF c.fd = "path" THEN fs[PathOf(c)].data ELSE c.buf
       IN  task' = [task EXCEPT ![t] =
                       Finish(c, "ok", content,
                              <<LogEvent("debug", c.flow, c.name)>>)]
    /\ UNCHANGED <<fs, lastSaved>>
    /\ UNCHANGED fib

----------------------------------------------------------------------------
(* list_files, delete_file, teardown, build_full_path: no await inside *)

ListFiles(t, fl) ==
    /\ task[t].pc = "idle"
    /\ LET c == [Idle EXCEPT !.op = "list", !.flow = fl,
                             !.loopfs = {"exists", "is_dir"}]
           e == [c EXCEPT !.loopfs = c.loopfs \cup {"iterdir", "is_file"}]
       IN  IF ~exists(fs, fl) \/ ~is_dir(fs, fl)
           THEN task' = [task EXCEPT ![t] =
                            Finish(c, "FileNotFoundError", <<>>,
                                   <<LogEvent("warning", fl, "")>>)]
           ELSE \E q \in Orderings(ListedNames(fs, fl)) :
                    task' = [task EXCEPT ![t] =
                                Finish(e, "ok", q, <<LogEvent("info", fl, "")>>)]
    /\ UNCHANGED <<fs, lastSaved>>
    /\ UNCHANGED fib

DeleteFile(t, fl, n) ==
    /\ task[t].pc = "idle"
    /\ LET k == [Idle EXCEPT !.op = "delete", !.flow = fl, !.name = n,
                             !.loopfs = {"exists"}]
           p == PathOf(k)
           c == IF exists(fs, p)
                THEN [k EXCEPT !.loopfs = k.loopfs \cup {"unlink"}] ELSE k
       IN  /\ IF exists(fs, p)
              THEN \E e \in UnlinkErrors(fs, p) :
                     IF e = "ok"
                     THEN /\ fs' = unlink(fs, p)
                          /\ lastSaved' = [lastSaved EXCEPT ![p] = Deleted]
                          /\ task' = [Orphaned(task, p, fs[p].data) EXCEPT ![t] =
                                         Finish(c, "ok", <<>>,
                                                <<LogEvent("info", fl, n)>>)]
                     ELSE /\ fs' = fs
                          /\ lastSaved' = [lastSaved EXCEPT ![p] = NoData]
                          /\ task' = [task EXCEPT ![t] = Finish(c, e, <<>>, <<>>)]
              ELSE /\ fs' = fs
                   /\ lastSaved' = [lastSaved EXCEPT ![p] = NoData]
                   /\ task' = [task EXCEPT ![t] =
                                  Finish(c, "ok", <<>>,
                                         <<LogEvent("warning", fl, n)>>)]
    /\ UNCHANGED fib

Teardown(t) ==
    /\ task[t].pc = "idle"
    /\ task' = [task EXCEPT ![t] =
                   Finish([Idle EXCEPT !.op = "teardown"], "ok", <<>>, <<>>)]
    /\ UNCHANGED <<fs, lastSaved>>
    /\ UNCHANGED fib

BuildFullPath(t, fl, n) ==
    /\ task[t].pc = "idle"
    /\ task' = [task EXCEPT ![t] =
                   Finish([Idle EXCEPT !.op = "path", !.flow = fl, !.name = n],
                          "ok", build_full_path(fl, n), <<>>)]
    /\ UNCHANGED <<fs, lastSaved>>
    /\ UNCHANGED fib

\* The caller takes the result (or the exception) and is free to call again.
Return(t) ==
    /\ task[t].pc = "done"
    /\ task' = [task EXCEPT ![t] = Idle]
    /\ UNCHANGED <<fs, lastSaved>>
    /\ UNCHANGED fib

----------------------------------------------------------------------------
(* Specification: the single logical caller of the concurrency model, one  *)
(* call at a time.                                                         *)

Caller == 1

Next ==
    \/ \E fl \in FlowIds, n \in FileNames, d \in Payloads : CallSave(Caller, fl, n, d)
    \/ SaveOpen(Caller)
    \/ SaveWrite(Caller)
    \/ \E fl \in FlowIds, n \in FileNames : CallGet(Caller, fl, n)
    \/ GetOpen(Caller)
    \/ GetRead(Caller)
    \/ \E fl \in FlowIds : ListFiles(Caller, fl)
    \/ \E fl \in FlowIds, n \in FileNames : DeleteFile(Caller, fl, n)
    \/ \E fl \in FlowIds, n \in FileNames : BuildFullPath(Caller, fl, n)
    \/ Teardown(Caller)
    \/ Return(Caller)

Spec == Init /\ [][Next]_vars

----------------------------------------------------------------------------
(* Specification with two callers of the same adapter instance: their      *)
(* coroutines interleave at the awaits, and the worker threads' system     *)
(* calls interleave with everything.  One flow, so that the two callers    *)
(* meet on the same keys.                                                  *)

ConcFlows == {<<"f">>}
ConcPayloads == {<<>>, <<2>>, <<1, 1>>}

NextConc ==
    \E t \in Tasks :
        \/ \E fl \in ConcFlows, n \in FileNames, d \in ConcPayloads : CallSave(t, fl, n, d)
        \/ SaveOpen(t)
        \/ SaveWrite(t)
        \/ \E fl \in ConcFlows, n \in FileNames : CallGet(t, fl, n)
        \/ GetOpen(t)
        \/ GetRead(t)
        \/ \E fl \in ConcFlows, n \in FileNames : DeleteFile(t, fl, n)
        \/ \E fl \in ConcFlows, n \in FileNames : BuildFullPath(t, fl, n)
        \/ Return(t)

SpecConc == Init /\ [][NextConc]_vars

----------------------------------------------------------------------------
(* Specification of one race: each caller makes a single save call, on any *)
(* key, and nothing else happens; no flow directory exists at the start.   *)

NextRace ==
    \E t \in Tasks :
        \/ \E fl \in FlowIds, n \in FileNames, d \in ConcPayloads : CallSave(t, fl, n, d)
        \/ SaveOpen(t)
        \/ SaveWrite(t)

SpecRace == Init /\ [][NextRace]_vars

----------------------------------------------------------------------------
(* Specification of a reader racing one writer: the writer saves and       *)
(* deletes, one call at a time, so saves never overlap one another; the    *)
(* reader gets.  Payloads are not empty, so an empty read is a truncation. *)

Writer == 1
Reader == 2
RWPayloads == ConcPayloads \ {<<>>}

NextReadWrite ==
    \/ \E fl \in ConcFlows, n \in FileNames, d \in RWPayloads : CallSave(Writer, fl, n, d)
    \/ SaveOpen(Writer)
    \/ SaveWrite(Writer)
    \/ \E fl \in ConcFlows, n \in FileNames : DeleteFile(Writer, fl, n)
    \/ Return(Writer)
    \/ \E fl \in ConcFlows, n \in FileNames : CallGet(Reader, fl, n)
    \/ GetOpen(Reader)
    \/ GetRead(Reader)
    \/ Return(Reader)

SpecReadWrite == Init /\ [][NextReadWrite]_vars

----------------------------------------------------------------------------
(* fib.py: fibonacci(n), one action per statement group of the function.   *)

FibInputs == (0 - MaxFibN)..MaxFibN

\* Two assignments in a row in place of the tuple assignment: b is computed
\* from the new a.
FibAdvanceInTurn(a, b) == <<b, b + b>>

\* Lines 8-9: next_num = a + b; a, b = b, next_num.  Python integers do not
\* overflow.
FibAdvance(a, b) == <<b, a + b>>

\* Lines 2-5: the guard and the initialisation.
FibEnter ==
    /\ fib.pc = "start"
    /\ IF fib.n <= 0
       THEN fib' = [fib EXCEPT !.pc = "done", !.result = <<>>]
       ELSE fib' = [fib EXCEPT !.pc = "loop", !.result = <<>>,
                               !.a = 0, !.b = 1, !.k = 0]
    /\ UNCHANGED <<fs, task, lastSaved>>

\* Lines 6-9: one iteration of "for _ in range(n)".
FibLoop ==
    /\ fib.pc = "loop" /\ fib.k < fib.n
    /\ fib' = [fib EXCEPT !.result = Append(fib.result, fib.a),
                          !.a = FibAdvance(fib.a, fib.b)[1],
                          !.b = FibAdvance(fib.a, fib.b)[2],
                          !.k = fib.k + 1]
    /\ UNCHANGED <<fs, task, lastSaved>>

\* Line 10: the range is exhausted.
FibReturn ==
    /\ fib.pc = "loop" /\ fib.k >= fib.n
    /\ fib' = [fib EXCEPT !.pc = "done"]
    /\ UNCHANGED <<fs, task, lastSaved>>

InitFib ==
    /\ fs = [p \in Paths |-> Absent]
    /\ task = [t \in Tasks |-> Idle]
    /\ lastSaved = [p \in Paths |-> NoData]
    /\ fib \in {FibCall(n) : n \in FibInputs}

NextFib == FibEnter \/ FibLoop \/ FibReturn

\* The interpreter keeps executing the function until it returns.
SpecFib == InitFib /\ [][NextFib]_vars /\ WF_vars(NextFib)

----------------------------------------------------------------------------
(* Properties *)

Called(t, op) == task[t].pc = "idle" /\ task'[t].op = op
Done(t, op) == task[t].pc = "done" /\ task[t].op = op

\* C1: round trip.  A get that follows a successful save on the same key,
\* with no save or delete on that key in between, succeeds and returns
\* exactly the saved payload, empty or not.
C1_RoundTrip ==
    \A t \in Tasks :
        (Done(t, "get") /\ lastSaved[PathOf(task[t])] \in Payloads)
            => /\ task[t].outcome = "ok"
               /\ task[t].result = lastSaved[PathOf(task[t])]

C1_Witness ==
    \E t \in Tasks :
        /\ Done(t, "get") /\ task[t].outcome = "ok"
        /\ lastSaved[PathOf(task[t])] = task[t].result
        /\ Len(task[t].result) = MaxLen
        /\ task[t].result[1] # task[t].result[MaxLen]

\* C2: overwrite.  A successful save(k, d2) that follows a successful
\* save(k, d1) with d1 # d2 leaves the file at k holding exactly d2, also
\* when d2 is shorter than d1.
C2_Overwrite ==
    \A t \in Tasks :
        (/\ Done(t, "save") /\ task[t].outcome = "ok"
         /\ task[t].prev \in Payloads /\ task[t].prev # task[t].data)
            => /\ fs[PathOf(task[t])] = File(task[t].data)
               /\ lastSaved[PathOf(task[t])] = task[t].data

C2_Witness ==
    \E t \in Tasks :
        /\ Done(t, "save") /\ task[t].outcome = "ok"
        /\ task[t].prev \in Payloads
        /\ Len(task[t].data) < Len(task[t].prev)
        /\ fs[PathOf(task[t])] = File(task[t].data)

\* C3: a get on a key at which nothing exists, with or without the flow
\* directory, fails at once with FileNotFoundError after a warning, and the
\* directory tree is unchanged.
C3_GetMissing ==
    [][\A t \in Tasks :
          (Called(t, "get") /\ fs[PathOf(task'[t])].kind = "none")
              => /\ task'[t].pc = "done"
                 /\ task'[t].outcome = "FileNotFoundError"
                 /\ task'[t].log = <<LogEvent("warning", task'[t].flow, task'[t].name)>>
                 /\ fs' = fs]_vars

C3_Witness ==
    \E t \in Tasks :
        /\ Done(t, "get") /\ task[t].outcome = "FileNotFoundError"
        /\ fs[PathOf(task[t])].kind = "none"
        /\ fs[task[t].flow].kind = "dir"

\* C4 (as claimed): once a delete has removed the file at a key, every get
\* on that key fails with FileNotFoundError until the next save on that key
\* is called.
C4_DeletedStaysNotFound ==
    \A t \in Tasks :
        (Done(t, "get") /\ lastSaved[PathOf(task[t])] = Deleted)
            => task[t].outcome = "FileNotFoundError"

\* C5 (as claimed): delete never fails, whatever is at the path, so a
\* second delete right after the first succeeds as well.
C5_DeleteNeverFails ==
    \A t \in Tasks : Done(t, "delete") => task[t].outcome = "ok"

\* C6: a listing of an existing flow directory returns the names of exactly
\* the regular files directly inside it, each once, and no subdirectory.
C6_ListExact ==
    \A t \in Tasks :
        (Done(t, "list") /\ fs[task[t].flow].kind = "dir")
            => LET q == task[t].result
                   fl == task[t].flow
               IN  /\ task[t].outcome = "ok"
                   /\ {q[i] : i \in DOMAIN q}
                        = {n \in FileNames : fs[fl \o <<n>>].kind = "file"}
                   /\ \A i, j \in DOMAIN q : q[i] = q[j] => i = j
                   /\ \A i \in DOMAIN q : fs[fl \o <<q[i]>>].kind # "dir"

C6_Witness ==
    \E t \in Tasks :
        /\ Done(t, "list") /\ task[t].outcome = "ok"
        /\ task[t].flow = <<"f">>
        /\ fs[<<"f", "a">>].kind = "dir"
        /\ fs[<<"f", "b">>].kind = "file"
        /\ task[t].result = <<"b">>

\* C7: a listing of a flow path that does not exist, or that is a regular
\* file, fails with FileNotFoundError after a warning and leaves the tree
\* unchanged.
C7_ListMissing ==
    [][\A t \in Tasks :
          (Called(t, "list") /\ fs[task'[t].flow].kind # "dir")
              => /\ task'[t].pc = "done"
                 /\ task'[t].outcome = "FileNotFoundError"
                 /\ task'[t].result = <<>>
                 /\ fs' = fs]_vars

C7_Witness ==
    \E t \in Tasks :
        /\ Done(t, "list") /\ task[t].outcome = "FileNotFoundError"
        /\ fs[task[t].flow].kind = "file"

\* C8 (as claimed): a get returns bytes exactly when a regular file is at
\* the path and otherwise fails with FileNotFoundError, a directory at the
\* path included.
C8_GetOnlyNotFound ==
    \A t \in Tasks :
        Done(t, "get")
            => IF fs[PathOf(task[t])].kind = "file"
               THEN task[t].outcome = "ok"
               ELSE task[t].outcome = "FileNotFoundError"

\* C9 (as claimed): every save that fails, at the directory creation or at
\* the write, has logged an error event naming the file and the flow, has
\* raised the original failure and has made no second attempt.
C9_SaveFailureLogged ==
    \A t \in Tasks :
        (Done(t, "save") /\ task[t].outcome # "ok")
            => /\ task[t].log = <<LogEvent("error", task[t].flow, task[t].name)>>
               /\ task[t].attempts <= 1

C11_AllOffloaded ==
    \A t \in Tasks :
        (task[t].pc = "done" /\ task[t].op \in {"save", "get", "list", "delete"})
            => /\ task[t].loopfs = {}
               /\ (task[t].loopfs \cup task[t].workerfs) # {} => task[t].awaits >= 1

SaveOk(t) == Done(t, "save") /\ task[t].outcome = "ok"

\* Both callers have completed a save on the same key.
BothSaved(t, u) ==
    t # u /\ SaveOk(t) /\ SaveOk(u) /\ PathOf(task[t]) = PathOf(task[u])

\* C12 (as claimed): after two concurrent saves on one key have both
\* completed the file holds exactly one of the two payloads.
C12_OneOfTwoPayloads ==
    \A t, u \in Tasks :
        BothSaved(t, u)
            => fs[PathOf(task[t])] \in {File(task[t].data), File(task[u].data)}

\* The file holds x, or x followed by what is left of a longer y.
Over(c, x, y) ==
    \/ c = x
    \/ Len(x) < Len(y) /\ c = x \o SubSeq(y, Len(x) + 1, Len(y))

\* C12 (amended): after both saves have completed the file exists and holds
\* one payload whole from its first byte, followed by nothing or, when the
\* other payload is longer, by the tail of the other payload; it is one of
\* the two payloads whenever they have the same length.
C12_LastWriteOverOther ==
    \A t, u \in Tasks :
        BothSaved(t, u)
            => LET c == fs[PathOf(task[t])]
               IN  /\ c.kind = "file"
                   /\ \/ Over(c.data, task[t].data, task[u].data)
                      \/ Over(c.data, task[u].data, task[t].data)
                   /\ Len(task[t].data) = Len(task[u].data)
                        => c.data \in {task[t].data, task[u].data}

C12_Witness ==
    \E t, u \in Tasks :
        /\ BothSaved(t, u)
        /\ task[t].data = <<2>> /\ task[u].data = <<1, 1>>
        /\ fs[PathOf(task[t])] = File(<<2, 1>>)

\* C13: build_full_path is pure.  The step that runs it returns at once the
\* path made of the root, the flow id and the file name, makes no
\* filesystem call and changes nothing on disk; two calls with the same
\* arguments hold the same result whatever the other caller did in between.
C13_BuildFullPathPure ==
    /\ [](\A t, u \in Tasks :
            (/\ Done(t, "path") /\ Done(u, "path")
             /\ task[t].flow = task[u].flow /\ task[t].name = task[u].name)
                => task[t].result = task[u].result)
    /\ [][\A t \in Tasks :
            Called(t, "path")
                => /\ fs' = fs
                   /\ task'[t].pc = "done" /\ task'[t].outcome = "ok"
                   /\ task'[t].result = Root \o task'[t].flow \o <<task'[t].name>>
                   /\ task'[t].loopfs = {} /\ task'[t].workerfs = {}]_vars

C13_Witness ==
    \E t, u \in Tasks :
        /\ t # u /\ Done(t, "path") /\ Done(u, "path")
        /\ task[t].flow = task[u].flow /\ task[t].name = task[u].name
        /\ task[t].result = <<"f", "a">>
        /\ fs[<<"f", "a">>].kind = "file"

C15_GetWholePayload ==
    \A t \in Tasks :
        (Done(t, "get") /\ task[t].outcome = "ok") => task[t].result \in RWPayloads

\* Task u is between the truncating open and the write of a save on p.
Truncating(u, p) ==
    /\ task[u].op = "save" /\ task[u].pc = "write"
    /\ task[u].fd = "path" /\ PathOf(task[u]) = p

\* Task u has called a save on p that has not opened the file yet.
Opening(u, p) ==
    task[u].op = "save" /\ task[u].pc = "open" /\ PathOf(task[u]) = p

\* C15 (amended): with saves on a key that do not overlap one another, a
\* get that succeeds returns the whole content of the file at its read.
\* When no save on the key is between its open and its write at that
\* moment, this is the complete payload of the last save on the key, also
\* when a delete removed the file after the get had opened it; when a save
\* is between its open and its write, the get returns the empty sequence.
C15_GetWholeUnlessTruncating ==
    [][\A t \in Tasks :
          (task[t].op = "get" /\ task[t].pc = "read" /\ task'[t].pc = "done")
              => LET p == PathOf(task[t])
                     r == task'[t].result
                 IN  /\ task'[t].outcome = "ok"
                     /\ IF task[t].fd = "orphan"
                        THEN r \in RWPayloads
                        ELSE IF \E u \in Tasks : Truncating(u, p)
                        THEN r = <<>>
                        ELSE \/ r = lastSaved[p]
                             \/ \E u \in Tasks : Opening(u, p) /\ r = task[u].prev]_vars

C15_Witness ==
    \E t \in Tasks :
        /\ Done(t, "get") /\ task[t].outcome = "ok"
        /\ task[t].result = <<1, 1>>
        /\ lastSaved[PathOf(task[t])] = Deleted
        /\ fs[PathOf(task[t])].kind = "none"

\* C16: a save whose path is an existing directory fails with
\* IsADirectoryError, after an error log event, and neither of its steps
\* changes the directory tree.
C16_SaveOnDirectory ==
    [][\A t \in Tasks :
          /\ (Called(t, "save") /\ fs[PathOf(task'[t])].kind = "dir")
                => fs' = fs /\ task'[t].pc = "open"
          /\ (/\ task[t].op = "save" /\ task[t].pc = "open"
              /\ task'[t] # task[t] /\ fs[PathOf(task[t])].kind = "dir")
                => /\ fs' = fs
                   /\ task'[t].pc = "done"
                   /\ task'[t].outcome = "IsADirectoryError"
                   /\ task'[t].log = <<LogEvent("error", task[t].flow, task[t].name)>>]_vars

C16_Witness ==
    \E t \in Tasks :
        /\ Done(t, "save") /\ task[t].outcome = "IsADirectoryError"
        /\ PathOf(task[t]) = <<"f", "a">>
        /\ fs[<<"f", "a">>].kind = "dir"
        /\ fs[<<"f", "a", "b">>] = File(<<1, 2>>)

\* The call a step of task t belongs to.
CallOf(t) == IF task[t].pc = "idle" THEN task'[t] ELSE task[t]

C18_FlowDirStays ==
    [][/\ \A q \in Paths : fs[q].kind = "dir" => fs'[q].kind = "dir"
       /\ \A t \in Tasks :
             /\ (Called(t, "save") /\ task'[t].pc = "open")
                   => fs'[task'[t].flow].kind = "dir"
             /\ (Called(t, "list") /\ fs[task'[t].flow].kind = "dir")
                   => /\ task'[t].outcome = "ok"
                      /\ (\A n \in FileNames : fs[task'[t].flow \o <<n>>].kind # "file")
                            => task'[t].result = <<>>]_vars

C18_Witness ==
    \E t \in Tasks :
        /\ Done(t, "list") /\ task[t].outcome = "ok" /\ task[t].result = <<>>
        /\ task[t].flow = <<"f">>
        /\ lastSaved[<<"f", "a">>] = Deleted /\ lastSaved[<<"f", "b">>] = Deleted
        /\ \A n \in FileNames : fs[<<"f", n>>].kind = "none"

\* C19: fibonacci(n) terminates for every n; it returns the empty list when
\* n <= 0 and otherwise a list r of exactly n elements with r[0] = 0,
\* r[1] = 1 (when n >= 2) and r[i] = r[i-1] + r[i-2] for 2 <= i < n
\* (positions count from 1 here).
C19_Fibonacci ==
    /\ <>(fib.pc = "done")
    /\ [](fib.pc = "done"
            => LET r == fib.result
               IN  IF fib.n <= 0 THEN r = <<>>
                   ELSE /\ Len(r) = fib.n
                        /\ r[1] = 0
                        /\ fib.n >= 2 => r[2] = 1
                        /\ \A i \in 3..fib.n : r[i] = r[i - 1] + r[i - 2])

C19_Witness ==
    /\ fib.pc = "done" /\ fib.n = 10
    /\ fib.result = <<0, 1, 1, 2, 3, 5, 8, 13, 21, 34>>

====
